---- MODULE Spec2Model ----
(***************************************************************************)
(* Model of the dog-cat-api JSON transformer (services/jsonReplacer.ts),   *)
(* its safe parser, the POST /replace request pipeline (server.ts,         *)
(* routes/replace.route.ts), the metrics hook and the graceful shutdown.   *)
(*                                                                         *)
(* A JavaScript string is a sequence of one-character strings.  A JSON     *)
(* value is a record [t, v]: t is the JavaScript type tag, v the payload.  *)
(* An object's payload is the sequence of its own properties <<key,value>> *)
(* in OrdinaryOwnPropertyKeys order (what Object.keys returns).            *)
(*                                                                         *)
(* A function that may throw returns a record with the field threw.  The   *)
(* code after a call is an operator of its own that takes the outcome of   *)
(* the call as its last parameter.                                         *)
(***************************************************************************)
EXTENDS Integers, Sequences, FiniteSets, TLC

VARIABLES
    pc,               \* position of the current call or request
    config,           \* config.maxReplacements, config.maxDepth, NODE_ENV
    request,          \* the request in flight: body text and limit parameter
    body,             \* request.body as left by the content type parser
    call,             \* arguments of the last transformer invocation
    ret,              \* outcome of the last transformer invocation
    reply,            \* the HTTP reply of the request in flight
    objectPrototype,  \* property names written to the shared Object.prototype
    isShuttingDown,   \* the flag of the graceful shutdown
    metrics,          \* the counters of the global metrics object
    process           \* signals received, the shutdown under way, exit code

vars == <<pc, config, request, body, call, ret, reply, objectPrototype,
         isShuttingDown, metrics, process>>

(***************************************************************************)
(* Bounds of the model.                                                    *)
(***************************************************************************)
MaxTokens == 5        \* longest generated string, in tokens
MaxStrLimit == 3      \* largest limit tried on generated strings
MaxWrap == 2          \* containers wrapped around a generated document
MaxLimit == 3         \* largest maxReplacements tried on documents
MaxMaxDepth == 2      \* largest maxDepth tried on documents
MaxHttpWrap == 1      \* containers wrapped around a request body
MaxQueryLimit == 2    \* largest limit query parameter of a request
MaxInFlight == 2      \* requests in flight at the same time
MaxSignals == 3       \* signals delivered to the process
MaxResponses == 3     \* responses counted by the metrics

None == [t |-> "undefined", v |-> 0]

(***************************************************************************)
(* Strings.                                                                *)
(***************************************************************************)
SOURCE_WORD == <<"d", "o", "g">>

\* The target spelled as the source.
TARGET_WORD_AsSource == <<"d", "o", "g">>

TARGET_WORD == <<"c", "a", "t">>

LowerCase == {"a", "b", "c", "d", "e", "f", "g", "h", "i", "j", "k", "l", "m",
              "n", "o", "p", "q", "r", "s", "t", "u", "v", "w", "x", "y", "z"}
UpperCase == {"A", "B", "C", "D", "E", "F", "G", "H", "I", "J", "K", "L", "M",
              "N", "O", "P", "Q", "R", "S", "T", "U", "V", "W", "X", "Y", "Z"}
Digits == {"0", "1", "2", "3", "4", "5", "6", "7", "8", "9"}

\* The class without the digits: [a-zA-Z].
wordBoundaryClassLetters == LowerCase \cup UpperCase

\* The character class [a-zA-Z0-9] of both lookarounds.
wordBoundaryClass == LowerCase \cup UpperCase \cup Digits

\* str.slice(from, to) with 0-based from (inclusive) and to (exclusive).
slice(str, from, to) == SubSeq(str, from + 1, to)

\* The pattern without its lookarounds: dog anywhere.
patternMatchesAtSubstring(str, i) ==
    /\ i >= 0
    /\ i + Len(SOURCE_WORD) <= Len(str)
    /\ \A k \in 1..Len(SOURCE_WORD) : str[i + k] = SOURCE_WORD[k]

\* The pattern (?<![a-zA-Z0-9])dog(?![a-zA-Z0-9]) matches at 0-based index i.
patternMatchesAt(str, i) ==
    /\ i >= 0
    /\ i + Len(SOURCE_WORD) <= Len(str)
    /\ \A k \in 1..Len(SOURCE_WORD) : str[i + k] = SOURCE_WORD[k]
    /\ (i = 0 \/ str[i] \notin wordBoundaryClass)
    /\ (i + Len(SOURCE_WORD) = Len(str)
          \/ str[i + Len(SOURCE_WORD) + 1] \notin wordBoundaryClass)

\* The least element of a non-empty set of indices.
firstOf(found) == CHOOSE i \in found : \A j \in found : i <= j

\* The indices at or after patternLastIndex where the pattern matches.
matchesFrom(str, patternLastIndex) ==
    {i \in patternLastIndex..Len(str) : patternMatchesAt(str, i)}

\* pattern.exec(str) of a global RegExp whose lastIndex is patternLastIndex:
\* the index of the first match at or after lastIndex, -1 for null.
exec(str, patternLastIndex) ==
    IF matchesFrom(str, patternLastIndex) = {} THEN -1
    ELSE firstOf(matchesFrom(str, patternLastIndex))

RECURSIVE replaceLoop(_, _, _, _, _)

\* The loop body without the budget test.
replaceLoopBodyUnchecked(str, context, lastIndex, result, index) ==
    IF index = -1
    THEN [str |-> result \o slice(str, lastIndex, Len(str)),
          context |-> context]
    ELSE replaceLoop(str,
                     [context EXCEPT !.count = @ + 1,
                                     !.trace = Append(@, "count++")],
                     index + Len(SOURCE_WORD),
                     index + Len(SOURCE_WORD),
                     result \o slice(str, lastIndex, index) \o TARGET_WORD)

\* The loop body whose early return forgets the rest of the string.
replaceLoopBodyTruncating(str, context, lastIndex, result, index) ==
    IF index = -1
    THEN [str |-> result \o slice(str, lastIndex, Len(str)),
          context |-> context]
    ELSE IF context.count >= context.limit
    THEN [str |-> result, context |-> context]
    ELSE replaceLoop(str,
                     [context EXCEPT !.count = @ + 1,
                                     !.trace = Append(@, "count++")],
                     index + Len(SOURCE_WORD),
                     index + Len(SOURCE_WORD),
                     result \o slice(str, lastIndex, index) \o TARGET_WORD)

\* The loop body counting a string once, however many matches it holds.
replaceLoopBodyCountingStrings(str, context, lastIndex, result, index) ==
    IF index = -1
    THEN [str |-> result \o slice(str, lastIndex, Len(str)),
          context |-> context]
    ELSE IF context.count >= context.limit
    THEN [str |-> result \o slice(str, lastIndex, Len(str)),
          context |-> context]
    ELSE replaceLoop(str,
                     IF lastIndex = 0
                     THEN [context EXCEPT !.count = @ + 1,
                                          !.trace = Append(@, "count++")]
                     ELSE context,
                     index + Len(SOURCE_WORD),
                     index + Len(SOURCE_WORD),
                     result \o slice(str, lastIndex, index) \o TARGET_WORD)

\* One turn of the while loop of replaceInString, once pattern.exec has
\* answered index (-1 for null): lastIndex and result are the local
\* variables of the same name.
replaceLoopBody(str, context, lastIndex, result, index) ==
    IF index = -1
    THEN [str |-> result \o slice(str, lastIndex, Len(str)),
          context |-> context]
    ELSE IF context.count >= context.limit
    THEN [str |-> result \o slice(str, lastIndex, Len(str)),
          context |-> context]
    ELSE replaceLoop(str,
                     [context EXCEPT !.count = @ + 1,
                                     !.trace = Append(@, "count++")],
                     index + Len(SOURCE_WORD),
                     index + Len(SOURCE_WORD),
                     result \o slice(str, lastIndex, index) \o TARGET_WORD)

\* The while loop of replaceInString; patternLastIndex is the RegExp's own
\* cursor.
replaceLoop(str, context, patternLastIndex, lastIndex, result) ==
    replaceLoopBody(str, context, lastIndex, result, exec(str, patternLastIndex))

replaceInString(str, context) ==
    IF context.count >= context.limit
    THEN [str |-> str, context |-> context]
    ELSE replaceLoop(str, context, 0, 0, <<>>)

(***************************************************************************)
(* JSON values.                                                            *)
(***************************************************************************)
Null == [t |-> "null", v |-> 0]
Bool(b) == [t |-> "boolean", v |-> b]
Num(n) == [t |-> "number", v |-> n]
Str(s) == [t |-> "string", v |-> s]
Arr(items) == [t |-> "array", v |-> items]
Obj(entries) == [t |-> "object", v |-> entries]

DANGEROUS_KEYS == {"__proto__", "constructor", "prototype"}

\* The array index a property key spells, -1 when it is not an array index.
arrayIndex(key) ==
    CASE key = "0" -> 0 [] key = "1" -> 1 [] key = "2" -> 2 [] key = "3" -> 3
      [] key = "4" -> 4 [] key = "5" -> 5 [] key = "6" -> 6 [] key = "7" -> 7
      [] key = "8" -> 8 [] key = "9" -> 9 [] OTHER -> -1

hasOwnProperty(entries, key) == \E i \in 1..Len(entries) : entries[i][1] = key

\* The number of own array index keys below the array index key.
indexKeysBelow(entries, key) ==
    Cardinality({i \in 1..Len(entries) :
                    /\ arrayIndex(entries[i][1]) >= 0
                    /\ arrayIndex(entries[i][1]) < arrayIndex(key)})

\* CreateDataProperty on an ordinary object: an existing own property keeps
\* its place; a new array index key goes among the index keys in ascending
\* order, before every other key; any other new key goes last.
CreateDataProperty(entries, key, value) ==
    IF hasOwnProperty(entries, key)
    THEN [i \in 1..Len(entries) |->
            IF entries[i][1] = key THEN <<key, value>> ELSE entries[i]]
    ELSE IF arrayIndex(key) >= 0
    THEN SubSeq(entries, 1, indexKeysBelow(entries, key))
            \o << <<key, value>> >>
            \o SubSeq(entries, indexKeysBelow(entries, key) + 1, Len(entries))
    ELSE Append(entries, <<key, value>>)

\* target[key] = value on a plain object that inherits from Object.prototype.
\* own are target's own properties, proto the shared prototype.  The key
\* __proto__ reaches the inherited accessor, which replaces the target's
\* [[Prototype]] and leaves its own properties and Object.prototype alone.
assign(own, proto, key, value) ==
    IF key = "__proto__" /\ ~hasOwnProperty(own, key)
    THEN [own |-> own, proto |-> proto]
    ELSE [own |-> CreateDataProperty(own, key, value), proto |-> proto]

(***************************************************************************)
(* The transformer.  traverse returns the value, the context as the call   *)
(* leaves it, whether it threw, and the shared prototype.  A JSON value is *)
(* a tree, no object of it is reachable twice, so the heap is threaded     *)
(* through the calls: input is the argument object as the call leaves it.  *)
(* The context is the ReplacementContext of the call; its field trace is a *)
(* history of the assignments made to it so far ("count++", "depth++",     *)
(* "depth--"), from which the values it went through can be read.          *)
(***************************************************************************)
DepthLimitExceededError(maxDepth) ==
    [name |-> "DepthLimitExceededError",
     message |-> "Maximum recursion depth of " \o ToString(maxDepth)
                    \o " exceeded"]

returned(value, input, context, proto) ==
    [threw |-> FALSE, value |-> value, error |-> None, input |-> input,
     context |-> context, proto |-> proto]

thrown(error, input, context, proto) ==
    [threw |-> TRUE, value |-> None, error |-> error, input |-> input,
     context |-> context, proto |-> proto]

\* context.depth++ of traverse.
entered(context) ==
    [context EXCEPT !.depth = @ + 1, !.trace = Append(@, "depth++")]

RECURSIVE traverse(_, _, _)
RECURSIVE traverseArrayFrom(_, _, _, _, _)
RECURSIVE traverseObjectFrom(_, _, _, _, _)

\* The elements of arr once the call r on its i-th element has ended.
arrayAfter(arr, i, r) == [arr EXCEPT ![i] = r.input]

\* The properties of obj once the call r on its i-th value has ended.
objectAfter(obj, i, r) == [obj EXCEPT ![i] = <<obj[i][1], r.input>>]

\* The callback of arr.map has returned or thrown r for element i.
traverseArrayNext(arr, i, result, r) ==
    IF r.threw
    THEN [r EXCEPT !.input = Arr(arrayAfter(arr, i, r))]
    ELSE traverseArrayFrom(arrayAfter(arr, i, r), i + 1,
                           Append(result, r.value), r.context, r.proto)

\* arr.map((item) => traverse(item, context)) from element i on.
traverseArrayFrom(arr, i, result, context, proto) ==
    IF i > Len(arr)
    THEN returned(Arr(result), Arr(arr), context, proto)
    ELSE traverseArrayNext(arr, i, result, traverse(arr[i], context, proto))

traverseArray(arr, context, proto) ==
    traverseArrayFrom(arr, 1, <<>>, context, proto)

\* result[key] = r.value for the i-th key, then the rest of the loop.
traverseObjectPut(obj, i, context, a) ==
    traverseObjectFrom(obj, i + 1, a.own, context, a.proto)

\* The same for a loop that runs the replacement over the key as well.
traverseObjectNextRewritingKeys(obj, i, result, r) ==
    IF r.threw
    THEN [r EXCEPT !.input = Obj(objectAfter(obj, i, r))]
    ELSE IF obj[i][1] = "dog" /\ r.context.count < r.context.limit
    THEN traverseObjectPut(objectAfter(obj, i, r), i,
                           [r.context EXCEPT !.count = @ + 1,
                                             !.trace = Append(@, "count++")],
                           assign(result, r.proto, "cat", r.value))
    ELSE traverseObjectPut(objectAfter(obj, i, r), i, r.context,
                           assign(result, r.proto, obj[i][1], r.value))

\* The same for a loop that stores the new value in obj as well.
traverseObjectNextInPlace(obj, i, result, r) ==
    IF r.threw
    THEN [r EXCEPT !.input = Obj(objectAfter(obj, i, r))]
    ELSE traverseObjectPut([obj EXCEPT ![i] = <<obj[i][1], r.value>>], i,
                           r.context,
                           assign(result, r.proto, obj[i][1], r.value))

\* traverse has returned or thrown r for the value of the i-th key.
traverseObjectNext(obj, i, result, r) ==
    IF r.threw
    THEN [r EXCEPT !.input = Obj(objectAfter(obj, i, r))]
    ELSE traverseObjectPut(objectAfter(obj, i, r), i, r.context,
                           assign(result, r.proto, obj[i][1], r.value))

\* The same for a loop that drops a dangerous key only now.
traverseObjectNextDropLate(obj, i, result, r) ==
    IF r.threw
    THEN [r EXCEPT !.input = Obj(objectAfter(obj, i, r))]
    ELSE IF obj[i][1] \in DANGEROUS_KEYS
    THEN traverseObjectFrom(objectAfter(obj, i, r), i + 1,
                            result, r.context, r.proto)
    ELSE traverseObjectPut(objectAfter(obj, i, r), i, r.context,
                           assign(result, r.proto, obj[i][1], r.value))

\* traverseObjectFrom traversing every value and dropping a dangerous key
\* only when it stores the result.
traverseObjectFromDropLate(obj, i, result, context, proto) ==
    IF i > Len(obj)
    THEN returned(Obj(result), Obj(obj), context, proto)
    ELSE traverseObjectNextDropLate(obj, i, result,
                                    traverse(obj[i][2], context, proto))

\* A loop that tests the depth for every key, before it looks at the key.
traverseObjectFromCheckingFirst(obj, i, result, context, proto) ==
    IF i > Len(obj)
    THEN returned(Obj(result), Obj(obj), context, proto)
    ELSE IF context.depth > context.maxDepth
    THEN thrown(DepthLimitExceededError(context.maxDepth), Obj(obj),
                context, proto)
    ELSE IF obj[i][1] \in DANGEROUS_KEYS
    THEN traverseObjectFrom(obj, i + 1, result, context, proto)
    ELSE traverseObjectNext(obj, i, result, traverse(obj[i][2], context, proto))

\* The for loop of traverseObject from the i-th key of Object.keys(obj) on.
traverseObjectFrom(obj, i, result, context, proto) ==
    IF i > Len(obj)
    THEN returned(Obj(result), Obj(obj), context, proto)
    ELSE IF obj[i][1] \in DANGEROUS_KEYS
    THEN traverseObjectFrom(obj, i + 1, result, context, proto)
    ELSE traverseObjectNext(obj, i, result, traverse(obj[i][2], context, proto))

\* traverseObject walking Object.keys(obj) from its last key to its first.
traverseObjectBackwards(obj, context, proto) ==
    traverseObjectFrom([i \in 1..Len(obj) |-> obj[Len(obj) + 1 - i]],
                       1, <<>>, context, proto)

traverseObject(obj, context, proto) ==
    traverseObjectFrom(obj, 1, <<>>, context, proto)

\* A traverse that raises once the budget is used up.
traverseStringRaising(value, r, proto) ==
    IF r.context.count >= r.context.limit
    THEN thrown([name |-> "LimitExceededError",
                 message |-> "Replacement limit reached"],
                value, r.context, proto)
    ELSE returned(Str(r.str), value, r.context, proto)

\* traverse returns the string replaceInString made.
traverseString(value, r, proto) ==
    returned(Str(r.str), value, r.context, proto)

\* The decrement placed after the calls instead of in a finally block: it
\* is skipped when the call throws.
traverseFinallyOnReturn(r) ==
    IF r.threw THEN r
    ELSE [r EXCEPT !.context.depth = @ - 1,
                   !.context.trace = Append(@, "depth--")]

\* The finally block of traverse: context.depth--.
traverseFinally(r) ==
    [r EXCEPT !.context.depth = @ - 1,
              !.context.trace = Append(@, "depth--")]

\* A finally block that puts back the whole context as it was on entry.
traverseFinallyRestoring(context, r) ==
    [r EXCEPT !.context =
        [context EXCEPT !.trace = Append(r.context.trace, "restore")]]

\* traverse restoring the whole context, count included, when it leaves a
\* container.
traverseRestoring(value, context, proto) ==
    IF context.depth > context.maxDepth
    THEN thrown(DepthLimitExceededError(context.maxDepth), value, context, proto)
    ELSE IF value.t = "null"
    THEN returned(Null, value, context, proto)
    ELSE IF value.t = "string"
    THEN traverseString(value, replaceInString(value.v, context), proto)
    ELSE IF value.t \in {"number", "boolean"}
    THEN returned(value, value, context, proto)
    ELSE IF value.t = "array"
    THEN traverseFinallyRestoring(context,
            traverseArray(value.v, entered(context), proto))
    ELSE traverseFinallyRestoring(context,
            traverseObject(value.v, entered(context), proto))

\* traverse without the branch for numbers and booleans: they fall through
\* to traverseObject, which finds no keys and returns an empty object.
traverseWithoutScalars(value, context, proto) ==
    IF context.depth > context.maxDepth
    THEN thrown(DepthLimitExceededError(context.maxDepth), value, context, proto)
    ELSE IF value.t = "null"
    THEN returned(Null, value, context, proto)
    ELSE IF value.t = "string"
    THEN traverseString(value, replaceInString(value.v, context), proto)
    ELSE IF value.t \in {"number", "boolean"}
    THEN returned(Obj(<<>>), value, context, proto)
    ELSE IF value.t = "array"
    THEN traverseFinally(
            traverseArray(value.v, entered(context), proto))
    ELSE traverseFinally(
            traverseObject(value.v, entered(context), proto))

\* traverse rejecting depth >= maxDepth.
traverseOffByOne(value, context, proto) ==
    IF context.depth >= context.maxDepth
    THEN thrown(DepthLimitExceededError(context.maxDepth), value, context, proto)
    ELSE IF value.t = "null"
    THEN returned(Null, value, context, proto)
    ELSE IF value.t = "string"
    THEN traverseString(value, replaceInString(value.v, context), proto)
    ELSE IF value.t \in {"number", "boolean"}
    THEN returned(value, value, context, proto)
    ELSE IF value.t = "array"
    THEN traverseFinally(
            traverseArray(value.v, entered(context), proto))
    ELSE traverseFinally(
            traverseObject(value.v, entered(context), proto))

\* traverse rejecting only depth > maxDepth + 1.
traverseOffByOneLate(value, context, proto) ==
    IF context.depth > context.maxDepth + 1
    THEN thrown(DepthLimitExceededError(context.maxDepth), value, context, proto)
    ELSE IF value.t = "null"
    THEN returned(Null, value, context, proto)
    ELSE IF value.t = "string"
    THEN traverseString(value, replaceInString(value.v, context), proto)
    ELSE IF value.t \in {"number", "boolean"}
    THEN returned(value, value, context, proto)
    ELSE IF value.t = "array"
    THEN traverseFinally(
            traverseArray(value.v, entered(context), proto))
    ELSE traverseFinally(
            traverseObject(value.v, entered(context), proto))

traverse(value, context, proto) ==
    IF context.depth > context.maxDepth
    THEN thrown(DepthLimitExceededError(context.maxDepth), value, context, proto)
    ELSE IF value.t = "null"
    THEN returned(Null, value, context, proto)
    ELSE IF value.t = "string"
    THEN traverseString(value, replaceInString(value.v, context), proto)
    ELSE IF value.t \in {"number", "boolean"}
    THEN returned(value, value, context, proto)
    ELSE IF value.t = "array"
    THEN traverseFinally(
            traverseArray(value.v, entered(context), proto))
    ELSE traverseFinally(
            traverseObject(value.v, entered(context), proto))

\* The result with limitReached only when count > limit.
ReplacementResultStrict(r) ==
    IF r.threw
    THEN [threw |-> TRUE, error |-> r.error, result |-> None,
          replacements |-> None, limitReached |-> None, input |-> r.input,
          context |-> r.context, proto |-> r.proto]
    ELSE [threw |-> FALSE, error |-> None, result |-> r.value,
          input |-> r.input, replacements |-> r.context.count,
          limitReached |-> r.context.count > r.context.limit,
          context |-> r.context, proto |-> r.proto]

\* The outcome of a call whose traversal ended as r: what the caller
\* receives (result, replacements, limitReached, or the error thrown) and
\* what the call leaves behind (the context, the shared prototype).
ReplacementResult(r) ==
    IF r.threw
    THEN [threw |-> TRUE, error |-> r.error, result |-> None,
          replacements |-> None, limitReached |-> None, input |-> r.input,
          context |-> r.context, proto |-> r.proto]
    ELSE [threw |-> FALSE, error |-> None, result |-> r.value,
          input |-> r.input, replacements |-> r.context.count,
          limitReached |-> r.context.count >= r.context.limit,
          context |-> r.context, proto |-> r.proto]

replaceDogsWithCats(input, maxReplacements, maxDepth, proto) ==
    ReplacementResult(
        traverse(input,
                 [count |-> 0, limit |-> maxReplacements,
                  depth |-> 0, maxDepth |-> maxDepth, trace |-> <<>>],
                 proto))

(***************************************************************************)
(* JSON text.  A document is the syntax tree of a JSON text: the same      *)
(* records as a value, but an object lists its members as written, and     *)
(* Malformed stands for a text outside the JSON grammar.                   *)
(***************************************************************************)
Malformed == [t |-> "malformed", v |-> 0]
SyntaxError == [name |-> "SyntaxError", message |-> "Unexpected token"]

RECURSIVE parseValue(_)
RECURSIVE parseMembers(_, _, _)
RECURSIVE parseElements(_, _, _)

\* The members of an object, defined on it one by one with CreateDataProperty.
parseMembers(members, i, entries) ==
    IF i > Len(members) THEN entries
    ELSE parseMembers(members, i + 1,
            CreateDataProperty(entries, members[i][1], parseValue(members[i][2])))

parseElements(elements, i, items) ==
    IF i > Len(elements) THEN items
    ELSE parseElements(elements, i + 1, Append(items, parseValue(elements[i])))

parseValue(doc) ==
    IF doc.t = "object" THEN Obj(parseMembers(doc.v, 1, <<>>))
    ELSE IF doc.t = "array" THEN Arr(parseElements(doc.v, 1, <<>>))
    ELSE doc

\* JSON.parse(text) without a reviver.
JSONparse(doc) ==
    IF doc.t = "malformed"
    THEN [threw |-> TRUE, error |-> SyntaxError, value |-> None]
    ELSE [threw |-> FALSE, error |-> None, value |-> parseValue(doc)]

RECURSIVE reviverFrom(_, _, _, _)

\* safeObj[k] = value[k] has left a; on to the next key.
reviverPut(value, i, a) == reviverFrom(value, i + 1, a.own, a.proto)

\* reviverFrom as a merging copy without the key filter: a property whose
\* key already resolves to an object on the copy is merged into that object,
\* and __proto__ resolves to the shared Object.prototype.
reviverFromMerging(value, i, safeObj, proto) ==
    IF i > Len(value) THEN [value |-> Obj(safeObj), proto |-> proto]
    ELSE IF value[i][1] = "__proto__" /\ value[i][2].t = "object"
    THEN reviverFrom(value, i + 1, safeObj,
            proto \cup {value[i][2].v[j][1] : j \in 1..Len(value[i][2].v)})
    ELSE reviverPut(value, i, assign(safeObj, proto, value[i][1], value[i][2]))

\* The for loop of the reviver from the i-th key of Object.keys(value) on.
reviverFrom(value, i, safeObj, proto) ==
    IF i > Len(value) THEN [value |-> Obj(safeObj), proto |-> proto]
    ELSE IF value[i][1] \notin DANGEROUS_KEYS
    THEN reviverPut(value, i, assign(safeObj, proto, value[i][1], value[i][2]))
    ELSE reviverFrom(value, i + 1, safeObj, proto)

\* The reviver of safeJsonParse, called as reviver(key, value).
reviver(value, proto) ==
    IF value.t = "object"
    THEN reviverFrom(value.v, 1, <<>>, proto)
    ELSE [value |-> value, proto |-> proto]

RECURSIVE internalize(_, _)
RECURSIVE internalizeFrom(_, _, _)

\* The i-th property of val has been revived as r: it is put back with
\* CreateDataProperty, and the next property follows.
internalizePut(val, i, r) ==
    internalizeFrom(IF val.t = "array"
                    THEN Arr([val.v EXCEPT ![i] = r.value])
                    ELSE Obj(CreateDataProperty(val.v, val.v[i][1], r.value)),
                    i + 1, r.proto)

\* InternalizeJSONProperty: the properties of val are revived first, in
\* key order.
internalizeFrom(val, i, proto) ==
    IF i > Len(val.v) THEN [value |-> val, proto |-> proto]
    ELSE internalizePut(val, i,
            internalize(IF val.t = "array" THEN val.v[i] ELSE val.v[i][2],
                        proto))

\* The reviver is called on val once its properties are revived.
internalizeSelf(r) == reviver(r.value, r.proto)

internalize(val, proto) ==
    IF val.t \in {"array", "object"}
    THEN internalizeSelf(internalizeFrom(val, 1, proto))
    ELSE reviver(val, proto)

\* JSON.parse has returned the revived root.
parsed(r) ==
    [threw |-> FALSE, error |-> None, value |-> r.value, proto |-> r.proto]

\* safeJsonParse filtering the keys of the root object only.
safeJsonParseShallow(json, proto) ==
    IF json.t = "malformed"
    THEN [threw |-> TRUE, error |-> SyntaxError, value |-> None,
          proto |-> proto]
    ELSE parsed(reviver(parseValue(json), proto))

\* JSON.parse(json, reviver): a SyntaxError for a malformed text, else the
\* parsed value internalized from the root.
safeJsonParse(json, proto) ==
    IF json.t = "malformed"
    THEN [threw |-> TRUE, error |-> SyntaxError, value |-> None,
          proto |-> proto]
    ELSE parsed(internalize(parseValue(json), proto))

(***************************************************************************)
(* Inputs.                                                                 *)
(***************************************************************************)
dog == SOURCE_WORD
dOg == <<"d", "O", "g">>
sp == <<" ">>
eAcute == "U+00E9"    \* the code unit of a non-ASCII letter

Tokens == {dog, dOg, sp, <<"x">>, <<"1">>}

RECURSIVE TokenStrings(_)
TokenStrings(n) ==
    IF n = 0 THEN {<<>>}
    ELSE LET shorter == TokenStrings(n - 1)
         IN  shorter \cup {s \o tok : s \in shorter, tok \in Tokens}

ExampleStrings ==
    { dog \o sp \o dog \o sp \o dog \o sp \o dog \o sp \o dog,
      <<"D", "o", "g">>, <<"D", "O", "G">>, <<"d", "o", "G">>,
      dog \o <<"-">> \o <<"f">>, <<eAcute>> \o dog \o <<eAcute>>,
      <<"h", "o", "t">> \o dog, dog \o <<"s">>, <<"1">> \o dog \o <<"2">>,
      <<"_">> \o dog, dog \o <<".">> }

StringInputs == TokenStrings(MaxTokens) \cup ExampleStrings

Leaf == Str(dog)

Bases == { Str(dog), Str(dog \o sp \o dog), Str(dog \o <<"s">>),
           Num(1), Bool(TRUE), Null, Arr(<<>>), Obj(<<>>) }

Wrappers(d) ==
    { Arr(<<d>>),
      Arr(<<Leaf, d>>),
      Arr(<<d, Leaf>>),
      Obj(<< <<"dog", d>> >>),
      Obj(<< <<"b", d>>, <<"1", Leaf>> >>),
      Obj(<< <<"__proto__", d>>, <<"a", Leaf>> >>),
      Obj(<< <<"a", Leaf>>, <<"constructor", d>> >>),
      Obj(<< <<"prototype", d>> >>) }

RECURSIVE Wrapped(_)
Wrapped(n) ==
    IF n = 0 THEN Bases
    ELSE LET inner == Wrapped(n - 1)
         IN  inner \cup UNION {Wrappers(d) : d \in inner}

\* Documents nested deeper than the generated ones: values three and four
\* levels down, next to siblings and under dangerous keys.
ExampleDocuments ==
    { Arr(<<Arr(<<Arr(<<Leaf>>)>>)>>),
      Arr(<<Leaf, Arr(<<Arr(<<Arr(<<>>)>>)>>)>>),
      Arr(<<Arr(<<Arr(<<Obj(<<>>)>>)>>), Leaf>>),
      Obj(<< <<"nested", Obj(<< <<"nested", Obj(<< <<"nested", Leaf>> >>)>> >>)>> >>),
      Obj(<< <<"b", Arr(<<Obj(<< <<"dog", Leaf>> >>)>>)>>, <<"1", Leaf>> >>),
      Obj(<< <<"__proto__", Arr(<<Arr(<<Leaf>>)>>)>>, <<"a", Leaf>> >>),
      Obj(<< <<"a", Leaf>>, <<"constructor", Arr(<<Arr(<<Arr(<<Leaf>>)>>)>>)>> >>),
      Arr(<<Obj(<< <<"prototype", Arr(<<Arr(<<Arr(<<Leaf>>)>>)>>)>>,
                   <<"a", Arr(<<Leaf>>)>> >>)>>),
      Arr(<<Arr(<<Obj(<< <<"a", Leaf>>,
                         <<"constructor", Obj(<< <<"a", Leaf>> >>)>> >>)>>)>>) }

Documents == Wrapped(MaxWrap) \cup ExampleDocuments

(***************************************************************************)
(* Calls of replaceInString on one string, with a context in which count   *)
(* replacements were already made.                                         *)
(***************************************************************************)
InitStr ==
    /\ pc = "start"
    /\ \E str \in StringInputs, limit \in 0..MaxStrLimit :
         \E count \in 0..limit :
            call = [str |-> str,
                    context |-> [count |-> count, limit |-> limit,
                                 depth |-> 0, maxDepth |-> 100,
                                 trace |-> <<>>]]
    /\ ret = None
    /\ config = None
    /\ request = None
    /\ body = None
    /\ reply = None
    /\ objectPrototype = {}
    /\ isShuttingDown = FALSE
    /\ metrics = None
    /\ process = None

CallReplaceInString ==
    /\ pc = "start"
    /\ ret' = replaceInString(call.str, call.context)
    /\ pc' = "done"
    /\ UNCHANGED <<config, request, body, call, reply, objectPrototype,
                   isShuttingDown, metrics, process>>

NextStr == CallReplaceInString

SpecStr == InitStr /\ [][NextStr]_vars

(***************************************************************************)
(* Calls of replaceDogsWithCats on the value a document parses to.         *)
(***************************************************************************)
InitTransform ==
    /\ pc = "start"
    /\ \E doc \in Documents, limit \in 0..MaxLimit, maxDepth \in 1..MaxMaxDepth :
            call = [doc |-> doc, input |-> parseValue(doc),
                    maxReplacements |-> limit, maxDepth |-> maxDepth]
    /\ ret = None
    /\ config = None
    /\ request = None
    /\ body = None
    /\ reply = None
    /\ objectPrototype = {}
    /\ isShuttingDown = FALSE
    /\ metrics = None
    /\ process = None

\* The call returns r to its caller.
Returned(r) ==
    /\ ~r.threw
    /\ ret' = r
    /\ objectPrototype' = r.proto

\* The call throws r.error at its caller.
Threw(r) ==
    /\ r.threw
    /\ ret' = r
    /\ objectPrototype' = r.proto

CallReturns ==
    /\ pc = "start"
    /\ Returned(replaceDogsWithCats(call.input, call.maxReplacements,
                                    call.maxDepth, objectPrototype))
    /\ pc' = "returned"
    /\ UNCHANGED <<config, request, body, call, reply, isShuttingDown,
                   metrics, process>>

CallThrows ==
    /\ pc = "start"
    /\ Threw(replaceDogsWithCats(call.input, call.maxReplacements,
                                 call.maxDepth, objectPrototype))
    /\ pc' = "thrown"
    /\ UNCHANGED <<config, request, body, call, reply, isShuttingDown,
                   metrics, process>>

NextTransform == CallReturns \/ CallThrows

SpecTransform == InitTransform /\ [][NextTransform]_vars

(***************************************************************************)
(* The server: POST /replace with Content-Type application/json.           *)
(* A request is parsed by the content type parser, handled by the route    *)
(* handler and answered; errors go through the error handler.              *)
(***************************************************************************)
Undefined == -1       \* an absent number

HttpError(message, statusCode) ==
    [message |-> message, statusCode |-> statusCode, validation |-> FALSE]

getErrorName(statusCode) ==
    CASE statusCode = 400 -> "Bad Request"
      [] statusCode = 401 -> "Unauthorized"
      [] statusCode = 403 -> "Forbidden"
      [] statusCode = 404 -> "Not Found"
      [] statusCode = 405 -> "Method Not Allowed"
      [] statusCode = 408 -> "Request Timeout"
      [] statusCode = 413 -> "Payload Too Large"
      [] statusCode = 415 -> "Unsupported Media Type"
      [] statusCode = 429 -> "Too Many Requests"
      [] statusCode = 500 -> "Internal Server Error"
      [] statusCode = 502 -> "Bad Gateway"
      [] statusCode = 503 -> "Service Unavailable"
      [] statusCode = 504 -> "Gateway Timeout"
      [] OTHER -> "Error"

sanitizeErrorMessage(message, statusCode, production) ==
    IF production /\ statusCode >= 500
    THEN "An unexpected error occurred"
    ELSE message

\* The callback of setErrorHandler: the reply it sends.
errorHandler(error, requestId, production) ==
    LET statusCode == IF error.statusCode = Undefined THEN 500
                      ELSE error.statusCode
        response == [error |-> getErrorName(statusCode),
                     message |-> sanitizeErrorMessage(error.message,
                                                      statusCode, production),
                     statusCode |-> statusCode,
                     requestId |-> requestId]
    IN  IF error.validation
        THEN [statusCode |-> 400,
              payload |-> [response EXCEPT !.error = "Validation Error",
                                           !.statusCode = 400]]
        ELSE [statusCode |-> statusCode, payload |-> response]

MathMin(a, b) == IF a < b THEN a ELSE b

\* effectiveLimit taking the requested limit as it is.
effectiveLimitUncapped(requestLimit, maxReplacements) ==
    IF requestLimit.defined /\ requestLimit.n # 0
    THEN requestLimit.n
    ELSE maxReplacements

\* effectiveLimit of the route handler; requestLimit is request.query.limit.
effectiveLimit(requestLimit, maxReplacements) ==
    IF requestLimit.defined /\ requestLimit.n # 0
    THEN MathMin(requestLimit.n, maxReplacements)
    ELSE maxReplacements

\* The try block rethrowing the depth error as it caught it.
handlerTryRethrowing(limit, r) ==
    IF r.threw
    THEN [threw |-> TRUE,
          error |-> HttpError(r.error.message, Undefined),
          value |-> None, limit |-> limit, outcome |-> r]
    ELSE [threw |-> FALSE, error |-> None,
          value |-> [result |-> r.result,
                     replacements |-> r.replacements,
                     limitReached |-> r.limitReached],
          limit |-> limit, outcome |-> r]

\* The try block of the route handler once replaceDogsWithCats has ended
\* as r: the result is returned, a DepthLimitExceededError is thrown again
\* as an Error with statusCode 400.
handlerTry(limit, r) ==
    IF r.threw
    THEN [threw |-> TRUE,
          error |-> HttpError(r.error.message, 400),
          value |-> None, limit |-> limit, outcome |-> r]
    ELSE [threw |-> FALSE, error |-> None,
          value |-> [result |-> r.result,
                     replacements |-> r.replacements,
                     limitReached |-> r.limitReached],
          limit |-> limit, outcome |-> r]

\* The route handler from the computed effectiveLimit on.
handlerWith(requestBody, limit, cfg, proto) ==
    handlerTry(limit,
               replaceDogsWithCats(requestBody, limit, cfg.maxDepth, proto))

\* The route handler: what it returns or throws, and the transformer call
\* it made.
handler(requestBody, requestLimit, cfg, proto) ==
    handlerWith(requestBody,
                effectiveLimit(requestLimit, cfg.maxReplacements),
                cfg, proto)

\* The callback swallowing the parse error: the body is null.
doneSwallowing(r) ==
    IF r.threw
    THEN [threw |-> FALSE, error |-> None, value |-> Null, proto |-> r.proto]
    ELSE [threw |-> FALSE, error |-> None, value |-> r.value,
          proto |-> r.proto]

\* done(null, json) or done(error) for the outcome r of safeJsonParse.
done(r) ==
    IF r.threw
    THEN [threw |-> TRUE, error |-> HttpError("Invalid JSON", 400),
          value |-> None, proto |-> r.proto]
    ELSE [threw |-> FALSE, error |-> None, value |-> r.value,
          proto |-> r.proto]

\* The callback of addContentTypeParser.
contentTypeParser(text, proto) == done(safeJsonParse(text, proto))

\* validateConfig() without the test of MAX_REPLACEMENTS.
validateConfigDepthOnly(cfg) == ~(cfg.maxDepth < 1)

\* validateConfig(): TRUE when it returns, FALSE when it throws.  Of the
\* settings it checks, the two the transformer receives are modelled.
validateConfig(cfg) ==
    /\ ~(cfg.maxReplacements < 0)
    /\ ~(cfg.maxDepth < 1)

\* The querystring schema of POST /replace: limit, when given, is an
\* integer >= 1.
querystringValid(query) == ~query.defined \/ query.n >= 1

\* The error Fastify raises for a request that fails the route's schema.
ValidationError ==
    [message |-> "querystring/limit must be >= 1", statusCode |-> 400,
     validation |-> TRUE]

\* The reply of the onRequest hook that checks isShuttingDown.
shutdownReply ==
    [statusCode |-> 503,
     payload |-> [error |-> "Service Unavailable",
                  message |-> "Server is shutting down",
                  statusCode |-> 503]]

\* The Content-Type test of the preHandler hook.
contentTypeAccepted(contentType) == contentType = "application/json"

\* The reply of the preHandler hook to another Content-Type.
unsupportedMediaTypeReply(requestId) ==
    [statusCode |-> 415,
     payload |-> [error |-> "Unsupported Media Type",
                  message |-> "Content-Type must be application/json",
                  statusCode |-> 415,
                  requestId |-> requestId]]

\* The handler of GET /ready reporting the configuration only.
readyHandlerConfigOnly(cfg, shuttingDown) ==
    [ready |-> validateConfig(cfg),
     checks |-> [config |-> validateConfig(cfg)]]

\* The handler of GET /ready.
readyHandler(cfg, shuttingDown) ==
    [ready |-> validateConfig(cfg) /\ ~shuttingDown,
     checks |-> [config |-> validateConfig(cfg)]]

ExampleTexts ==
    { Malformed,
      Obj(<< <<"__proto__", Obj(<< <<"polluted", Str(<<"y", "e", "s">>)>> >>)>> >>),
      Obj(<< <<"__proto__", Num(1)>>, <<"a", Leaf>>,
             <<"__proto__", Obj(<< <<"isAdmin", Bool(TRUE)>> >>)>> >>),
      Obj(<< <<"a", Leaf>>, <<"2", Leaf>>,
             <<"a", Arr(<<Obj(<< <<"constructor", Leaf>>, <<"0", Leaf>> >>)>>)>> >>),
      Arr(<<Leaf, Arr(<<Arr(<<>>)>>)>>),
      Arr(<<Leaf, Arr(<<Arr(<<Arr(<<>>)>>)>>)>>),
      Obj(<< <<"nested", Obj(<< <<"nested", Obj(<< <<"nested", Leaf>> >>)>> >>)>> >>) }

Texts == Wrapped(MaxHttpWrap) \cup ExampleTexts

\* The limit query parameter: absent, or an integer; 0 fails the schema.
QueryLimits ==
    {[defined |-> FALSE, n |-> 0]}
        \cup {[defined |-> TRUE, n |-> n] : n \in 0..MaxQueryLimit}

\* The requests a client sends: POST /replace with a JSON body, POST
\* /replace with a text/plain body, GET /ready.
Requests ==
    {[id |-> "req-1", route |-> "/replace",
      contentType |-> "application/json", text |-> text, limit |-> limit] :
        text \in Texts, limit \in QueryLimits}
    \cup {[id |-> "req-1", route |-> "/replace",
           contentType |-> "text/plain",
           text |-> Str(<<"t", "e", "s", "t">>), limit |-> limit] :
        limit \in QueryLimits}
    \cup {[id |-> "req-1", route |-> "/ready", contentType |-> "",
           text |-> None, limit |-> [defined |-> FALSE, n |-> 0]]}

\* The process before start(): the configuration is what the environment
\* gave, valid or not.
Init ==
    /\ pc = "boot"
    /\ \E maxReplacements \in (-1)..MaxLimit, maxDepth \in 0..MaxMaxDepth,
          production \in BOOLEAN :
            config = [maxReplacements |-> maxReplacements,
                      maxDepth |-> maxDepth,
                      production |-> production]
    /\ request = None
    /\ body = None
    /\ call = None
    /\ ret = None
    /\ reply = None
    /\ objectPrototype = {}
    /\ isShuttingDown = FALSE
    /\ metrics = None
    /\ process = None

\* start(): validateConfig() returns and the server listens.
Start ==
    /\ pc = "boot"
    /\ validateConfig(config)
    /\ pc' = "idle"
    /\ UNCHANGED <<config, request, body, call, ret, reply, objectPrototype,
                   isShuttingDown, metrics, process>>

\* start(): validateConfig() throws and the process exits.
StartFails ==
    /\ pc = "boot"
    /\ ~validateConfig(config)
    /\ pc' = "exited"
    /\ UNCHANGED <<config, request, body, call, ret, reply, objectPrototype,
                   isShuttingDown, metrics, process>>

\* SIGTERM or SIGINT: shutdown() sets the flag once.  The process exit that
\* follows ends the behaviour.
Shutdown ==
    /\ pc \notin {"boot", "exited"}
    /\ ~isShuttingDown
    /\ isShuttingDown' = TRUE
    /\ UNCHANGED <<pc, config, request, body, call, ret, reply,
                   objectPrototype, metrics, process>>

\* A request arrives and passes the onRequest hooks.
ReceiveRequest ==
    /\ pc = "idle"
    /\ ~isShuttingDown
    /\ \E req \in Requests :
        /\ request' = req
        /\ pc' = IF req.route = "/replace" THEN "parsing" ELSE "handler"
    /\ body' = None
    /\ call' = None
    /\ ret' = None
    /\ reply' = None
    /\ UNCHANGED <<config, objectPrototype, isShuttingDown, metrics, process>>

\* A request arrives and the onRequest hook answers 503.
RejectRequest ==
    /\ pc = "idle"
    /\ isShuttingDown
    /\ \E req \in Requests : request' = req
    /\ reply' = shutdownReply
    /\ body' = None
    /\ call' = None
    /\ ret' = None
    /\ pc' = "reply"
    /\ UNCHANGED <<config, objectPrototype, isShuttingDown, metrics, process>>

\* The parser hands r.value to the request.
BodyParsed(r) ==
    /\ ~r.threw
    /\ body' = r.value
    /\ objectPrototype' = r.proto

ParseBody ==
    /\ pc = "parsing"
    /\ request.contentType = "application/json"
    /\ BodyParsed(contentTypeParser(request.text, objectPrototype))
    /\ pc' = "handler"
    /\ UNCHANGED <<config, request, call, ret, reply, isShuttingDown,
                   metrics, process>>

\* The parser hands r.error to the error handler.
BodyRejected(r) ==
    /\ r.threw
    /\ reply' = errorHandler(r.error, request.id, config.production)
    /\ objectPrototype' = r.proto

ParseBodyFails ==
    /\ pc = "parsing"
    /\ request.contentType = "application/json"
    /\ BodyRejected(contentTypeParser(request.text, objectPrototype))
    /\ pc' = "reply"
    /\ UNCHANGED <<config, request, body, call, ret, isShuttingDown,
                   metrics, process>>

\* A text/plain body is not given to the JSON parser: the request gets it
\* as a string.
ParseText ==
    /\ pc = "parsing"
    /\ request.contentType = "text/plain"
    /\ body' = request.text
    /\ pc' = "handler"
    /\ UNCHANGED <<config, request, call, ret, reply, objectPrototype,
                   isShuttingDown, metrics, process>>

\* The query fails the schema: the error handler answers.
ValidationFails ==
    /\ pc = "handler"
    /\ request.route = "/replace"
    /\ ~querystringValid(request.limit)
    /\ reply' = errorHandler(ValidationError, request.id, config.production)
    /\ pc' = "reply"
    /\ UNCHANGED <<config, request, body, call, ret, objectPrototype,
                   isShuttingDown, metrics, process>>

\* The preHandler hook answers 415.
ContentTypeRejected ==
    /\ pc = "handler"
    /\ request.route = "/replace"
    /\ querystringValid(request.limit)
    /\ ~contentTypeAccepted(request.contentType)
    /\ reply' = unsupportedMediaTypeReply(request.id)
    /\ pc' = "reply"
    /\ UNCHANGED <<config, request, body, call, ret, objectPrototype,
                   isShuttingDown, metrics, process>>

\* The handler returns h.value, which is sent with status 200.
Handled(h) ==
    /\ ~h.threw
    /\ call' = [doc |-> request.text, input |-> body,
                maxReplacements |-> h.limit, maxDepth |-> config.maxDepth]
    /\ ret' = h.outcome
    /\ reply' = [statusCode |-> 200, payload |-> h.value]
    /\ objectPrototype' = h.outcome.proto

HandleReplace ==
    /\ pc = "handler"
    /\ request.route = "/replace"
    /\ querystringValid(request.limit)
    /\ contentTypeAccepted(request.contentType)
    /\ Handled(handler(body, request.limit, config, objectPrototype))
    /\ pc' = "reply"
    /\ UNCHANGED <<config, request, body, isShuttingDown, metrics, process>>

\* The handler throws h.error, which goes to the error handler.
HandlerThrew(h) ==
    /\ h.threw
    /\ call' = [doc |-> request.text, input |-> body,
                maxReplacements |-> h.limit, maxDepth |-> config.maxDepth]
    /\ ret' = h.outcome
    /\ reply' = errorHandler(h.error, request.id, config.production)
    /\ objectPrototype' = h.outcome.proto

HandleReplaceFails ==
    /\ pc = "handler"
    /\ request.route = "/replace"
    /\ querystringValid(request.limit)
    /\ contentTypeAccepted(request.contentType)
    /\ HandlerThrew(handler(body, request.limit, config, objectPrototype))
    /\ pc' = "reply"
    /\ UNCHANGED <<config, request, body, isShuttingDown, metrics, process>>

\* GET /ready is answered.
Ready ==
    /\ pc = "handler"
    /\ request.route = "/ready"
    /\ reply' = [statusCode |-> 200,
                 payload |-> readyHandler(config, isShuttingDown)]
    /\ pc' = "reply"
    /\ UNCHANGED <<config, request, body, call, ret, objectPrototype,
                   isShuttingDown, metrics, process>>

\* The reply is sent; the request and everything made for it are dropped.
SendReply ==
    /\ pc = "reply"
    /\ pc' = "idle"
    /\ request' = None
    /\ body' = None
    /\ call' = None
    /\ ret' = None
    /\ reply' = None
    /\ UNCHANGED <<config, objectPrototype, isShuttingDown, metrics, process>>

Next ==
    \/ Start
    \/ StartFails
    \/ Shutdown
    \/ ReceiveRequest
    \/ RejectRequest
    \/ ParseBody
    \/ ParseBodyFails
    \/ ParseText
    \/ ValidationFails
    \/ ContentTypeRejected
    \/ HandleReplace
    \/ HandleReplaceFails
    \/ Ready
    \/ SendReply

Spec == Init /\ [][Next]_vars

(***************************************************************************)
(* Concurrent requests.  Each request in flight has its own request        *)
(* object, so here pc, request, body, call, ret and reply map a slot to    *)
(* what the server holds for the request in that slot; config and          *)
(* Object.prototype are shared.  A hook, the parser callback and the       *)
(* handler each run to completion, so requests interleave between them.    *)
(***************************************************************************)
Slots == 1..MaxInFlight

ConcurrentTexts ==
    { Malformed,
      Str(dog \o sp \o dog \o sp \o dog),
      Arr(<<Leaf, Arr(<<Arr(<<Leaf>>)>>)>>),
      Obj(<< <<"__proto__", Obj(<< <<"polluted", Leaf>> >>)>>, <<"a", Leaf>> >>) }

ConcurrentLimits == {[defined |-> FALSE, n |-> 0], [defined |-> TRUE, n |-> 1]}

\* A body another request in flight has parsed, when there is one.
bodyOfShared(i) ==
    IF \E j \in Slots \ {i} : pc[j] \in {"handler", "reply"} /\ body[j] # None
    THEN body[CHOOSE j \in Slots \ {i} :
                pc[j] \in {"handler", "reply"} /\ body[j] # None]
    ELSE body[i]

\* request.body of the request in slot i.
bodyOf(i) == body[i]

\* request.query.limit of the request in slot i.
limitOf(i) == request[i].limit

InitConcurrent ==
    /\ pc = [i \in Slots |-> "idle"]
    /\ \E maxReplacements \in {1, MaxLimit}, maxDepth \in {1, MaxMaxDepth} :
            config = [maxReplacements |-> maxReplacements,
                      maxDepth |-> maxDepth,
                      production |-> FALSE]
    /\ request = [i \in Slots |-> None]
    /\ body = [i \in Slots |-> None]
    /\ call = [i \in Slots |-> None]
    /\ ret = [i \in Slots |-> None]
    /\ reply = [i \in Slots |-> None]
    /\ objectPrototype = {}
    /\ isShuttingDown = FALSE
    /\ metrics = None
    /\ process = None

ReceiveAt(i) ==
    /\ pc[i] = "idle"
    /\ \E text \in ConcurrentTexts, limit \in ConcurrentLimits :
            request' = [request EXCEPT ![i] =
                            [id |-> "req-" \o ToString(i), route |-> "/replace",
                             contentType |-> "application/json",
                             text |-> text, limit |-> limit]]
    /\ pc' = [pc EXCEPT ![i] = "parsing"]
    /\ UNCHANGED <<config, body, call, ret, reply, objectPrototype,
                   isShuttingDown, metrics, process>>

\* The parser callback has ended as r for the request in slot i.
ParsedAt(i, r) ==
    /\ body' = [body EXCEPT ![i] = r.value]
    /\ reply' = [reply EXCEPT ![i] =
                    IF r.threw
                    THEN errorHandler(r.error, request[i].id, config.production)
                    ELSE None]
    /\ pc' = [pc EXCEPT ![i] = IF r.threw THEN "reply" ELSE "handler"]
    /\ objectPrototype' = r.proto

ParseAt(i) ==
    /\ pc[i] = "parsing"
    /\ ParsedAt(i, contentTypeParser(request[i].text, objectPrototype))
    /\ UNCHANGED <<config, request, call, ret, isShuttingDown,
                   metrics, process>>

\* The handler has ended as h for the request in slot i.
HandledAt(i, h) ==
    /\ call' = [call EXCEPT ![i] =
                    [doc |-> request[i].text, input |-> bodyOf(i),
                     maxReplacements |-> h.limit,
                     maxDepth |-> config.maxDepth]]
    /\ ret' = [ret EXCEPT ![i] = h.outcome]
    /\ reply' = [reply EXCEPT ![i] =
                    IF h.threw
                    THEN errorHandler(h.error, request[i].id, config.production)
                    ELSE [statusCode |-> 200, payload |-> h.value]]
    /\ objectPrototype' = h.outcome.proto

HandleAt(i) ==
    /\ pc[i] = "handler"
    /\ HandledAt(i, handler(bodyOf(i), limitOf(i), config, objectPrototype))
    /\ pc' = [pc EXCEPT ![i] = "reply"]
    /\ UNCHANGED <<config, request, body, isShuttingDown, metrics, process>>

SendAt(i) ==
    /\ pc[i] = "reply"
    /\ pc' = [pc EXCEPT ![i] = "idle"]
    /\ request' = [request EXCEPT ![i] = None]
    /\ body' = [body EXCEPT ![i] = None]
    /\ call' = [call EXCEPT ![i] = None]
    /\ ret' = [ret EXCEPT ![i] = None]
    /\ reply' = [reply EXCEPT ![i] = None]
    /\ UNCHANGED <<config, objectPrototype, isShuttingDown, metrics, process>>

NextConcurrent ==
    \E i \in Slots : ReceiveAt(i) \/ ParseAt(i) \/ HandleAt(i) \/ SendAt(i)

SpecConcurrent == InitConcurrent /\ [][NextConcurrent]_vars

(***************************************************************************)
(* The graceful shutdown (setupGracefulShutdown).  process holds the       *)
(* signals delivered so far, the connections still open, the promise of    *)
(* app.close() and the timer of the timeout raced against it, how many of  *)
(* each were started, and the exit code.  app.close() resolves once the    *)
(* last connection has ended, or rejects; the code after the await runs in *)
(* the same turn of the event loop as the settlement that wakes it up.     *)
(***************************************************************************)
Signals == {"SIGTERM", "SIGINT"}

\* A shutdown that does not look at the flag.
shutdownProceedsAlways(shuttingDown) == TRUE

\* if (isShuttingDown) return: TRUE when shutdown() goes on.
shutdownProceeds(shuttingDown) == ~shuttingDown

\* An exit with code 0 whatever the race gave.
shutdownExitAlwaysZero(outcome) == 0

\* The exit code after the await: 0 when the race was fulfilled, 1 from the
\* catch block when it was rejected.
shutdownExit(outcome) == IF outcome = "fulfilled" THEN 0 ELSE 1

InitShutdown ==
    /\ pc = "listening"
    /\ isShuttingDown = FALSE
    /\ process = [signals |-> <<>>, connections |-> 0,
                  close |-> "none", closes |-> 0,
                  timer |-> "none", timers |-> 0,
                  exitCode |-> Undefined]
    /\ config = None
    /\ request = None
    /\ body = None
    /\ call = None
    /\ ret = None
    /\ reply = None
    /\ objectPrototype = {}
    /\ metrics = None

\* A client opens a connection; the server accepts none once it is
\* closing.
Connect ==
    /\ pc = "listening"
    /\ process.close = "none"
    /\ process.connections < MaxInFlight
    /\ process' = [process EXCEPT !.connections = @ + 1]
    /\ UNCHANGED <<pc, config, request, body, call, ret, reply,
                   objectPrototype, isShuttingDown, metrics>>

\* A connection ends.
Disconnect ==
    /\ pc = "listening"
    /\ process.connections > 0
    /\ process' = [process EXCEPT !.connections = @ - 1]
    /\ UNCHANGED <<pc, config, request, body, call, ret, reply,
                   objectPrototype, isShuttingDown, metrics>>

\* shutdown(signal): the flag, then app.close() and the timer of the race.
Signal ==
    /\ pc = "listening"
    /\ Len(process.signals) < MaxSignals
    /\ \E signal \in Signals :
        IF shutdownProceeds(isShuttingDown)
        THEN /\ isShuttingDown' = TRUE
             /\ process' = [process EXCEPT
                                !.signals = Append(@, signal),
                                !.close = "pending", !.closes = @ + 1,
                                !.timer = "pending", !.timers = @ + 1]
        ELSE /\ isShuttingDown' = isShuttingDown
             /\ process' = [process EXCEPT !.signals = Append(@, signal)]
    /\ UNCHANGED <<pc, config, request, body, call, ret, reply,
                   objectPrototype, metrics>>

\* app.close() resolves first: the race is fulfilled and the process exits.
CloseResolves ==
    /\ pc = "listening"
    /\ process.close = "pending"
    /\ process.connections = 0
    /\ process' = [process EXCEPT !.close = "resolved",
                                  !.exitCode = shutdownExit("fulfilled")]
    /\ pc' = "exited"
    /\ UNCHANGED <<config, request, body, call, ret, reply, objectPrototype,
                   isShuttingDown, metrics>>

\* app.close() rejects first: the race is rejected and the process exits.
CloseRejects ==
    /\ pc = "listening"
    /\ process.close = "pending"
    /\ process' = [process EXCEPT !.close = "rejected",
                                  !.exitCode = shutdownExit("rejected")]
    /\ pc' = "exited"
    /\ UNCHANGED <<config, request, body, call, ret, reply, objectPrototype,
                   isShuttingDown, metrics>>

\* The timeout fires first: the race is rejected and the process exits.
TimerFires ==
    /\ pc = "listening"
    /\ process.timer = "pending"
    /\ process' = [process EXCEPT !.timer = "fired",
                                  !.exitCode = shutdownExit("rejected")]
    /\ pc' = "exited"
    /\ UNCHANGED <<config, request, body, call, ret, reply, objectPrototype,
                   isShuttingDown, metrics>>

NextShutdown ==
    \/ Connect
    \/ Disconnect
    \/ Signal
    \/ CloseResolves
    \/ CloseRejects
    \/ TimerFires

\* A timer that is pending fires: the event loop runs it once its delay has
\* passed.  Nothing makes app.close() settle.
SpecShutdown ==
    InitShutdown /\ [][NextShutdown]_vars /\ WF_vars(TimerFires)

(***************************************************************************)
(* The metrics.  The server of Spec, one request at a time, together with  *)
(* the onResponse hook that counts every response in the global metrics    *)
(* object.  totalResponseTime, a sum of measured durations, is left out.   *)
(***************************************************************************)
\* The hook counting only the responses of status 500 and above as errors.
onResponseServerErrorsOnly(m, statusCode) ==
    [requestCount |-> m.requestCount + 1,
     errorCount |-> IF statusCode >= 500 THEN m.errorCount + 1
                    ELSE m.errorCount]

\* The onResponse hook: metrics.requestCount++, and metrics.errorCount++
\* when reply.statusCode >= 400.
onResponse(m, statusCode) ==
    [requestCount |-> m.requestCount + 1,
     errorCount |-> IF statusCode >= 400 THEN m.errorCount + 1
                    ELSE m.errorCount]

\* Requests answered 200, 400 (invalid JSON, depth, limit = 0) and 415.
MeteredRequests ==
    {[id |-> "req-1", route |-> "/replace",
      contentType |-> "application/json", text |-> text,
      limit |-> [defined |-> FALSE, n |-> 0]] :
        text \in {Leaf, Malformed, Arr(<<Leaf, Arr(<<Arr(<<>>)>>)>>)}}
    \cup {[id |-> "req-1", route |-> "/replace",
           contentType |-> "application/json", text |-> Leaf,
           limit |-> [defined |-> TRUE, n |-> 0]],
          [id |-> "req-1", route |-> "/replace",
           contentType |-> "text/plain",
           text |-> Str(<<"t", "e", "s", "t">>),
           limit |-> [defined |-> FALSE, n |-> 0]],
          [id |-> "req-1", route |-> "/ready", contentType |-> "",
           text |-> None, limit |-> [defined |-> FALSE, n |-> 0]]}

InitMetrics ==
    /\ pc = "idle"
    /\ config = [maxReplacements |-> MaxLimit, maxDepth |-> 1,
                 production |-> FALSE]
    /\ metrics = [requestCount |-> 0, errorCount |-> 0]
    /\ request = None
    /\ body = None
    /\ call = None
    /\ ret = None
    /\ reply = None
    /\ objectPrototype = {}
    /\ isShuttingDown = FALSE
    /\ process = None

\* A request arrives and passes the onRequest hooks.
ReceiveMetered ==
    /\ pc = "idle"
    /\ ~isShuttingDown
    /\ metrics.requestCount < MaxResponses
    /\ \E req \in MeteredRequests :
        /\ request' = req
        /\ pc' = IF req.route = "/replace" THEN "parsing" ELSE "handler"
    /\ body' = None
    /\ call' = None
    /\ ret' = None
    /\ reply' = None
    /\ UNCHANGED <<config, objectPrototype, isShuttingDown, metrics, process>>

\* A request arrives and the onRequest hook answers 503.
RejectMetered ==
    /\ pc = "idle"
    /\ isShuttingDown
    /\ metrics.requestCount < MaxResponses
    /\ \E req \in MeteredRequests : request' = req
    /\ reply' = shutdownReply
    /\ body' = None
    /\ call' = None
    /\ ret' = None
    /\ pc' = "reply"
    /\ UNCHANGED <<config, objectPrototype, isShuttingDown, metrics, process>>

\* The reply is sent and the onResponse hook runs.
Respond ==
    /\ pc = "reply"
    /\ metrics' = onResponse(metrics, reply.statusCode)
    /\ pc' = "idle"
    /\ request' = None
    /\ body' = None
    /\ call' = None
    /\ ret' = None
    /\ reply' = None
    /\ UNCHANGED <<config, objectPrototype, isShuttingDown, process>>

NextMetrics ==
    \/ Shutdown
    \/ ReceiveMetered
    \/ RejectMetered
    \/ ParseBody
    \/ ParseBodyFails
    \/ ParseText
    \/ ValidationFails
    \/ ContentTypeRejected
    \/ HandleReplace
    \/ HandleReplaceFails
    \/ Ready
    \/ Respond

SpecMetrics == InitMetrics /\ [][NextMetrics]_vars

(***************************************************************************)
(* Vocabulary of the properties, stated without the transformer.           *)
(***************************************************************************)
AsciiAlnum == LowerCase \cup UpperCase \cup Digits
DangerousNames == {"__proto__", "constructor", "prototype"}
cat == <<"c", "a", "t">>

\* The 0-based positions of str that hold the lowercase token "dog" with
\* no ASCII letter or digit right before or right after it.
MatchPositions(str) ==
    {i \in 0..(Len(str) - 3) :
        /\ SubSeq(str, i + 1, i + 3) = <<"d", "o", "g">>
        /\ (i = 0 \/ str[i] \notin AsciiAlnum)
        /\ (i + 3 = Len(str) \/ str[i + 4] \notin AsciiAlnum)}

\* The n leftmost of a set of positions.
Leftmost(positions, n) ==
    {i \in positions : Cardinality({j \in positions : j < i}) < n}

\* str with "cat" written over the three characters at each given position.
WriteCatAt(str, positions) ==
    [k \in 1..Len(str) |->
        IF \E i \in positions : k \in (i + 1)..(i + 3)
        THEN cat[k - (CHOOSE i \in positions : k \in (i + 1)..(i + 3))]
        ELSE str[k]]

Budget(context) == context.limit - context.count

\* The value without its dangerous keys and their subtrees, at every level.
RECURSIVE StripDangerous(_)
StripDangerous(value) ==
    IF value.t = "array"
    THEN Arr([i \in 1..Len(value.v) |-> StripDangerous(value.v[i])])
    ELSE IF value.t = "object"
    THEN LET kept == SelectSeq(value.v, LAMBDA e : e[1] \notin DangerousNames)
         IN  Obj([i \in 1..Len(kept) |->
                    <<kept[i][1], StripDangerous(kept[i][2])>>])
    ELSE value

\* The strings of a value in visiting order (depth first, elements by index,
\* properties as listed, dangerous keys skipped), each followed by a line
\* feed, as one string.
RECURSIVE Flatten(_)
RECURSIVE FlattenAll(_, _)
FlattenAll(values, i) ==
    IF i > Len(values) THEN <<>>
    ELSE Flatten(values[i]) \o FlattenAll(values, i + 1)

Flatten(value) ==
    IF value.t = "string" THEN value.v \o <<"\n">>
    ELSE IF value.t = "array" THEN FlattenAll(value.v, 1)
    ELSE IF value.t = "object"
    THEN LET kept == SelectSeq(value.v, LAMBDA e : e[1] \notin DangerousNames)
         IN  FlattenAll([i \in 1..Len(kept) |-> kept[i][2]], 1)
    ELSE <<>>

\* The number of matches a call can reach.
MatchCount(value) == Cardinality(MatchPositions(Flatten(value)))

\* The value with its strings read back, in visiting order, from flat.
RECURSIVE Refill(_, _, _)
RECURSIVE RefillAll(_, _, _, _)
RefillAll(values, i, flat, at) ==
    IF i > Len(values) THEN [values |-> <<>>, at |-> at]
    ELSE LET head == Refill(values[i], flat, at)
             tail == RefillAll(values, i + 1, flat, head.at)
         IN  [values |-> <<head.value>> \o tail.values, at |-> tail.at]

Refill(value, flat, at) ==
    IF value.t = "string"
    THEN [value |-> Str(SubSeq(flat, at + 1, at + Len(value.v))),
          at |-> at + Len(value.v) + 1]
    ELSE IF value.t = "array"
    THEN LET r == RefillAll(value.v, 1, flat, at)
         IN  [value |-> Arr(r.values), at |-> r.at]
    ELSE IF value.t = "object"
    THEN LET r == RefillAll([i \in 1..Len(value.v) |-> value.v[i][2]],
                            1, flat, at)
         IN  [value |-> Obj([i \in 1..Len(value.v) |->
                                <<value.v[i][1], r.values[i]>>]),
              at |-> r.at]
    ELSE [value |-> value, at |-> at]

\* The value without its dangerous keys and with "cat" written over the n
\* first matches of its visiting order.
FirstReplaced(value, n) ==
    Refill(StripDangerous(value),
           WriteCatAt(Flatten(value), Leftmost(MatchPositions(Flatten(value)), n)),
           0).value

\* Equality of JSON values that ignores the order of object keys.
RECURSIVE SameJson(_, _)
SameJson(a, b) ==
    IF a.t # b.t THEN FALSE
    ELSE IF a.t = "array"
    THEN /\ Len(a.v) = Len(b.v)
         /\ \A i \in 1..Len(a.v) : SameJson(a.v[i], b.v[i])
    ELSE IF a.t = "object"
    THEN /\ Len(a.v) = Len(b.v)
         /\ \A i \in 1..Len(a.v) : \E j \in 1..Len(b.v) :
                a.v[i][1] = b.v[j][1] /\ SameJson(a.v[i][2], b.v[j][2])
    ELSE a = b

\* Some object of the value, at any level, has a dangerous key.
RECURSIVE HasDangerousKey(_)
HasDangerousKey(value) ==
    IF value.t = "array"
    THEN \E i \in 1..Len(value.v) : HasDangerousKey(value.v[i])
    ELSE IF value.t = "object"
    THEN \E i \in 1..Len(value.v) :
            value.v[i][1] \in DangerousNames \/ HasDangerousKey(value.v[i][2])
    ELSE FALSE

Max(a, b) == IF a >= b THEN a ELSE b
Min(a, b) == IF a <= b THEN a ELSE b

RECURSIVE MaxOver(_, _)
MaxOver(numbers, i) ==
    IF i > Len(numbers) THEN 0 ELSE Max(numbers[i], MaxOver(numbers, i + 1))

\* The number of container levels between the root and the deepest value.
RECURSIVE DeepestValue(_)
DeepestValue(value) ==
    IF value.t = "array" /\ Len(value.v) > 0
    THEN 1 + MaxOver([i \in 1..Len(value.v) |-> DeepestValue(value.v[i])], 1)
    ELSE IF value.t = "object" /\ Len(value.v) > 0
    THEN 1 + MaxOver([i \in 1..Len(value.v) |-> DeepestValue(value.v[i][2])], 1)
    ELSE 0

\* The same, not counting what lies under a dangerous key.
DeepestKept(value) == DeepestValue(StripDangerous(value))

(***************************************************************************)
(* C1: whenever replaceDogsWithCats returns, 0 <= replacements <= limit    *)
(* and limitReached = (replacements >= limit).                             *)
(***************************************************************************)
C1_BudgetInvariant ==
    pc = "returned" =>
        /\ 0 <= ret.replacements
        /\ ret.replacements <= call.maxReplacements
        /\ ret.limitReached = (ret.replacements >= call.maxReplacements)

\* A call that had more matches than budget and used the whole budget.
C1_Witness ==
    /\ pc = "returned"
    /\ call.maxReplacements = 2
    /\ MatchCount(call.input) > 2
    /\ ret.replacements = 2
    /\ ret.limitReached

(***************************************************************************)
(* C2: in a string with more matches than the budget still available,      *)
(* replaceInString replaces exactly the leftmost matches up to the budget  *)
(* and copies everything else, later matches included, unchanged.          *)
(***************************************************************************)
C2_LeftmostPrefix ==
    (pc = "done"
       /\ Cardinality(MatchPositions(call.str)) > Budget(call.context)) =>
        /\ ret.str = WriteCatAt(call.str,
                        Leftmost(MatchPositions(call.str), Budget(call.context)))
        /\ ret.context.count = call.context.limit

\* "dog dog dog dog dog" with limit 3 gave "cat cat cat dog dog", count 3.
C2_Witness ==
    /\ pc = "done"
    /\ call.str = dog \o sp \o dog \o sp \o dog \o sp \o dog \o sp \o dog
    /\ call.context.count = 0
    /\ call.context.limit = 3
    /\ ret.str = cat \o sp \o cat \o sp \o cat \o sp \o dog \o sp \o dog
    /\ ret.context.count = 3

(***************************************************************************)
(* C4: a position is replaced if and only if it holds exactly the          *)
(* lowercase token "dog" with no ASCII letter or digit right before or     *)
(* after it (the ends of the string count as boundaries): with budget for  *)
(* every match, the result is the string with "cat" at exactly those       *)
(* positions, and the count grows by their number.                         *)
(***************************************************************************)
C4_WordBoundaryMatch ==
    (pc = "done"
       /\ Cardinality(MatchPositions(call.str)) <= Budget(call.context)) =>
        /\ ret.str = WriteCatAt(call.str, MatchPositions(call.str))
        /\ ret.context.count =
              call.context.count + Cardinality(MatchPositions(call.str))
        /\ (call.str = <<"d", "o", "g">> /\ Budget(call.context) >= 1
               => ret.str = cat
                    /\ ret.context.count = call.context.count + 1)
        /\ (call.str \in {<<"D", "o", "g">>, <<"D", "O", "G">>,
                            <<"d", "O", "g">>}
                           \cup {<<c>> \o <<"d", "o", "g">> : c \in AsciiAlnum}
                           \cup {<<"d", "o", "g">> \o <<c>> : c \in AsciiAlnum}
               => ret.str = call.str /\ ret.context.count = call.context.count)

\* "1dog dog": only the second token is a match and was replaced.
C4_Witness ==
    /\ pc = "done"
    /\ call.str = <<"1">> \o dog \o sp \o dog
    /\ call.context.count = 0
    /\ ret.str = <<"1">> \o dog \o sp \o cat
    /\ ret.context.count = 1

C5_AnyValueDepth ==
    pc \in {"returned", "thrown"} =>
        (pc = "thrown") = (DeepestValue(call.input) > call.maxDepth)

(***************************************************************************)
(* C5 amended: counting only values that are not inside the subtree of a   *)
(* dangerous key, a value nested D container levels below the root (the    *)
(* root is depth 0) is transformed when D <= maxDepth and makes the call   *)
(* fail with DepthLimitExceeded, carrying maxDepth, when D > maxDepth.     *)
(***************************************************************************)
C5_DepthEnforcement ==
    pc \in {"returned", "thrown"} =>
        /\ (pc = "thrown") = (DeepestKept(call.input) > call.maxDepth)
        /\ (DeepestKept(call.input) = call.maxDepth => ~ret.threw)
        /\ (DeepestKept(call.input) = call.maxDepth + 1 => ret.threw)
        /\ (ret.threw =>
               /\ ret.error.name = "DepthLimitExceededError"
               /\ ret.error.message = "Maximum recursion depth of "
                     \o ToString(call.maxDepth) \o " exceeded")

\* A call that failed on a value exactly one level too deep.
C5_Witness ==
    /\ pc = "thrown"
    /\ call.maxDepth = 2
    /\ DeepestKept(call.input) = 3
    /\ ret.error.name = "DepthLimitExceededError"

(***************************************************************************)
(* C7: the transformer drops every dangerous key at every level: the       *)
(* result has no such key, matches under a dropped key are neither         *)
(* replaced nor counted, and the other keys are transformed as usual.      *)
(***************************************************************************)
C7_DangerousKeysDropped ==
    pc = "returned" =>
        /\ ~HasDangerousKey(ret.result)
        /\ ret.replacements = Min(call.maxReplacements, MatchCount(call.input))
        /\ ret.result = FirstReplaced(call.input, call.maxReplacements)

\* [{"__proto__": "dog dog", "a": "dog"}] with limit 1: the key is gone and
\* its two matches cost nothing, so the sibling "a" was replaced.
C7_Witness ==
    /\ pc = "returned"
    /\ call.maxReplacements = 1
    /\ call.input = Arr(<<Obj(<< <<"__proto__", Str(dog \o sp \o dog)>>,
                                  <<"a", Str(dog)>> >>)>>)
    /\ ret.result = Arr(<<Obj(<< <<"a", Str(cat)>> >>)>>)
    /\ ret.replacements = 1

(***************************************************************************)
(* C6: when the traversal raises DepthLimitExceeded the whole call fails:  *)
(* the caller gets no result, no count and no partly transformed value,    *)
(* also when earlier siblings were already replaced, and POST /replace     *)
(* answers 400 with a message naming the configured maximum depth.         *)
(***************************************************************************)
C6_DepthErrorIsTotal ==
    (pc = "reply" /\ "threw" \in DOMAIN ret /\ ret.threw) =>
        /\ ret.result = None
        /\ ret.replacements = None
        /\ ret.limitReached = None
        /\ reply.statusCode = 400
        /\ reply.payload =
              [error |-> "Bad Request",
               message |-> "Maximum recursion depth of "
                             \o ToString(config.maxDepth) \o " exceeded",
               statusCode |-> 400,
               requestId |-> request.id]

\* ["dog", [x]] under maxDepth 1 in production: "dog" had been replaced
\* when the depth error was raised, and the reply is the 400.
C6_Witness ==
    /\ pc = "reply"
    /\ config.maxDepth = 1
    /\ config.production
    /\ "threw" \in DOMAIN ret
    /\ ret.threw
    /\ ret.context.count = 1
    /\ reply.statusCode = 400

(***************************************************************************)
(* C8: for every valid JSON text the value safeJsonParse returns has no    *)
(* dangerous key in any object at any level, and equals the plain parse of *)
(* the text with those keys and their subtrees removed.                    *)
(***************************************************************************)
C8_SafeParseStrips ==
    (pc = "handler" /\ request.contentType = "application/json") =>
        /\ ~HasDangerousKey(body)
        /\ body = StripDangerous(JSONparse(request.text).value)

\* A text with a repeated key whose last value nests a dangerous key.
C8_Witness ==
    /\ pc = "handler"
    /\ request.text =
          Obj(<< <<"a", Leaf>>, <<"2", Leaf>>,
                 <<"a", Arr(<<Obj(<< <<"constructor", Leaf>>, <<"0", Leaf>> >>)>>)>> >>)
    /\ body = Obj(<< <<"2", Leaf>>,
                    <<"a", Arr(<<Obj(<< <<"0", Leaf>> >>)>>)>> >>)

(***************************************************************************)
(* C9: no request writes the shared Object.prototype: whatever dangerous   *)
(* keys the bodies carry, a fresh empty object has the same properties     *)
(* after every step as before it.                                          *)
(***************************************************************************)
C9_PrototypeUntouched == [][objectPrototype' = objectPrototype]_vars

\* {"__proto__": {"polluted": "yes"}} was parsed, transformed and answered.
C9_Witness ==
    /\ pc = "reply"
    /\ request.text =
          Obj(<< <<"__proto__", Obj(<< <<"polluted", Str(<<"y", "e", "s">>)>> >>)>> >>)
    /\ reply.statusCode = 200
    /\ reply.payload.result = Obj(<<>>)
    /\ objectPrototype = {}

(***************************************************************************)
(* C10: with limit = 0 a returning call changes no string, reports         *)
(* replacements = 0 and limitReached = TRUE, with or without matches.      *)
(***************************************************************************)
C10_ZeroLimit ==
    (pc = "returned" /\ call.maxReplacements = 0) =>
        /\ ret.result = StripDangerous(call.input)
        /\ ret.replacements = 0
        /\ ret.limitReached = TRUE

\* A call with limit 0 on an input that holds matches.
C10_Witness ==
    /\ pc = "returned"
    /\ call.maxReplacements = 0
    /\ MatchCount(call.input) >= 2
    /\ ret.limitReached = TRUE

\* No string of the value, at any level, holds the token.
RECURSIVE TokenFree(_)
TokenFree(value) ==
    IF value.t = "string" THEN MatchPositions(value.v) = {}
    ELSE IF value.t = "array"
    THEN \A i \in 1..Len(value.v) : TokenFree(value.v[i])
    ELSE IF value.t = "object"
    THEN \A i \in 1..Len(value.v) : TokenFree(value.v[i][2])
    ELSE TRUE

(***************************************************************************)
(* C11 as stated: a value with no occurrence of the token in any of its    *)
(* strings is returned equal to the input, with replacements = 0 and,      *)
(* when limit > 0, limitReached = FALSE.                                   *)
(***************************************************************************)
C11_NoTokenIdentity ==
    (pc = "returned" /\ TokenFree(call.input)) =>
        /\ ret.result = call.input
        /\ ret.replacements = 0
        /\ (call.maxReplacements > 0 => ret.limitReached = FALSE)

(***************************************************************************)
(* C11 amended: a value with no occurrence of the token is returned equal  *)
(* to the input without its dangerous keys (dropped at every level with    *)
(* their subtrees), with replacements = 0 and, when limit > 0,             *)
(* limitReached = FALSE.                                                   *)
(***************************************************************************)
C11_NoTokenUnchanged ==
    (pc = "returned" /\ TokenFree(call.input)) =>
        /\ ret.result = StripDangerous(call.input)
        /\ ret.replacements = 0
        /\ (call.maxReplacements > 0 => ret.limitReached = FALSE)

\* A nested value holding "dogs" and a dangerous key, no token: it came
\* back without the key and otherwise as it was.
C11_Witness ==
    /\ pc = "returned"
    /\ call.maxReplacements > 0
    /\ TokenFree(call.input)
    /\ HasDangerousKey(call.input)
    /\ \E w \in {"dog", "prototype"} :
          call.input = Obj(<< <<"dog", Obj(<< <<w, Str(dog \o <<"s">>)>> >>)>> >>)
    /\ ret.replacements = 0
    /\ ret.limitReached = FALSE

\* The containers and keys of a value, every scalar blanked.
RECURSIVE Keys(_)
Keys(value) ==
    IF value.t = "array"
    THEN Arr([i \in 1..Len(value.v) |-> Keys(value.v[i])])
    ELSE IF value.t = "object"
    THEN Obj([i \in 1..Len(value.v) |->
                <<value.v[i][1], Keys(value.v[i][2])>>])
    ELSE Null

(***************************************************************************)
(* C12: every object of the output has exactly the keys of the input       *)
(* object that are not dangerous, spelled as in the input, "dog" included: *)
(* only values are rewritten, and a key never counts as a replacement.     *)
(***************************************************************************)
C12_KeysPreserved ==
    pc = "returned" =>
        /\ Keys(ret.result) = Keys(StripDangerous(call.input))
        /\ ret.replacements <= MatchCount(call.input)

\* {"dog": "dog"}: the value became "cat", the key stayed "dog", and one
\* replacement was counted.
C12_Witness ==
    /\ pc = "returned"
    /\ call.input = Obj(<< <<"dog", Str(dog)>> >>)
    /\ call.maxReplacements = 2
    /\ ret.result = Obj(<< <<"dog", Str(cat)>> >>)
    /\ ret.replacements = 1

\* The numbers, booleans and nulls of a value in visiting order.
RECURSIVE Scalars(_)
RECURSIVE ScalarsAll(_, _)
ScalarsAll(values, i) ==
    IF i > Len(values) THEN <<>>
    ELSE Scalars(values[i]) \o ScalarsAll(values, i + 1)

Scalars(value) ==
    IF value.t \in {"number", "boolean", "null"} THEN <<value>>
    ELSE IF value.t = "array" THEN ScalarsAll(value.v, 1)
    ELSE IF value.t = "object"
    THEN ScalarsAll([i \in 1..Len(value.v) |-> value.v[i][2]], 1)
    ELSE <<>>

(***************************************************************************)
(* C13: numbers, booleans and null come back unchanged at every position   *)
(* of the tree, and visiting them changes neither the count nor the depth. *)
(***************************************************************************)
C13_ScalarsUnchanged ==
    pc = "returned" =>
        /\ Scalars(ret.result) = Scalars(StripDangerous(call.input))
        /\ ret.replacements = MatchCount(call.input) - MatchCount(ret.result)
        /\ (call.input.t \in {"number", "boolean", "null"} =>
               /\ ret.result = call.input
               /\ ret.context = [count |-> 0, limit |-> call.maxReplacements,
                                 depth |-> 0, maxDepth |-> call.maxDepth,
                                 trace |-> <<>>])

\* A number two levels down, next to strings that were replaced.
C13_Witness ==
    /\ pc = "returned"
    /\ call.input = Arr(<<Leaf, Obj(<< <<"1", Leaf>>, <<"b", Num(1)>> >>)>>)
    /\ call.maxReplacements = 3
    /\ ret.result = Arr(<<Str(cat), Obj(<< <<"1", Str(cat)>>, <<"b", Num(1)>> >>)>>)
    /\ ret.replacements = 2

(***************************************************************************)
(* C18: the transformer never mutates its input: when replaceDogsWithCats  *)
(* has returned or thrown, the input value, with every nested object,     *)
(* array and string, is what it was before the call.                       *)
(***************************************************************************)
C18_InputNotMutated ==
    pc \in {"returned", "thrown"} => ret.input = call.input

\* A call that replaced strings two levels down and left its input alone.
C18_Witness ==
    /\ pc = "returned"
    /\ call.input = Arr(<<Leaf, Obj(<< <<"1", Leaf>>,
                                       <<"b", Str(dog \o sp \o dog)>> >>)>>)
    /\ call.maxReplacements = 3
    /\ ret.replacements = 3
    /\ ret.result # call.input
    /\ ret.input = call.input

(***************************************************************************)
(* C14: the budget POST /replace passes to the transformer is              *)
(* min(requested limit, server maximum) when the limit parameter is given  *)
(* and the server maximum when it is absent, so no request gets more       *)
(* replacements than the server maximum.                                   *)
(***************************************************************************)
C14_EffectiveLimit ==
    (pc = "reply" /\ call # None) =>
        /\ call.maxReplacements =
              (IF request.limit.defined
               THEN Min(request.limit.n, config.maxReplacements)
               ELSE config.maxReplacements)
        /\ (~ret.threw => ret.replacements <= config.maxReplacements)

\* limit=2 under a server maximum of 1 on a body with two matches: the
\* transformer got the budget 1 and made one replacement.
C14_Witness ==
    /\ pc = "reply"
    /\ call # None
    /\ request.limit = [defined |-> TRUE, n |-> 2]
    /\ config.maxReplacements = 1
    /\ MatchCount(body) >= 2
    /\ call.maxReplacements = 1
    /\ reply.payload.replacements = 1

(***************************************************************************)
(* C15: every call the POST /replace handler makes to the transformer      *)
(* passes a budget >= 0 and a maxDepth >= 1: the configuration is          *)
(* validated before any request can reach the transformer.                 *)
(***************************************************************************)
C15_ValidatedArguments ==
    /\ (pc \notin {"boot", "exited"} =>
           config.maxReplacements >= 0 /\ config.maxDepth >= 1)
    /\ (call # None => call.maxReplacements >= 0 /\ call.maxDepth >= 1)

\* A call made with the least values validateConfig lets through.
C15_Witness ==
    /\ pc = "reply"
    /\ call # None
    /\ config.maxReplacements = 0
    /\ call.maxReplacements = 0
    /\ call.maxDepth = 1

(***************************************************************************)
(* C16: a body that is not syntactically valid JSON makes the safe parser  *)
(* fail; the request is answered 400 "Invalid JSON" and the transformer    *)
(* is never invoked for it.                                                *)
(***************************************************************************)
C16_InvalidJson ==
    [][(pc = "parsing"
          /\ request.contentType = "application/json"
          /\ request.text = Malformed
          /\ pc' # pc) =>
            /\ safeJsonParse(request.text, objectPrototype).threw
            /\ pc' = "reply"
            /\ reply' = [statusCode |-> 400,
                         payload |-> [error |-> "Bad Request",
                                      message |-> "Invalid JSON",
                                      statusCode |-> 400,
                                      requestId |-> request.id]]
            /\ body' = None
            /\ call' = None
            /\ ret' = None]_vars

\* A malformed body was answered 400 and no call was made.
C16_Witness ==
    /\ pc = "reply"
    /\ request.text = Malformed
    /\ reply.statusCode = 400
    /\ reply.payload.message = "Invalid JSON"
    /\ call = None

(***************************************************************************)
(* C19: every error response the server produces, whatever its status,     *)
(* carries the fields error, message, statusCode and requestId.            *)
(***************************************************************************)
C19_ErrorFormat ==
    (pc = "reply" /\ reply.statusCode >= 400) =>
        {"error", "message", "statusCode", "requestId"}
            \subseteq DOMAIN reply.payload

AloneHandled(req, h) ==
    IF h.threw THEN errorHandler(h.error, req.id, config.production)
    ELSE [statusCode |-> 200, payload |-> h.value]

AloneParsed(req, p) ==
    IF p.threw THEN errorHandler(p.error, req.id, config.production)
    ELSE AloneHandled(req, handler(p.value, req.limit, config, {}))

Alone(req) == AloneParsed(req, contentTypeParser(req.text, {}))

(***************************************************************************)
(* C17: requests do not interfere: in every interleaving of concurrent     *)
(* POST /replace requests, the reply to each request (result,              *)
(* replacements, limitReached, or the error) is the reply the same body    *)
(* and limit get when processed alone.                                     *)
(***************************************************************************)
C17_NoInterference ==
    \A i \in Slots : pc[i] = "reply" => reply[i] = Alone(request[i])

\* Two requests in flight together, one cut short by its limit and one
\* refused for its depth: each has its own reply.
C17_Witness ==
    /\ pc[1] = "reply"
    /\ pc[2] = "reply"
    /\ config.maxDepth = 1
    /\ request[1].text = Str(dog \o sp \o dog \o sp \o dog)
    /\ request[1].limit = [defined |-> TRUE, n |-> 1]
    /\ request[2].text = Arr(<<Leaf, Arr(<<Arr(<<Leaf>>)>>)>>)
    /\ reply[1].payload.result = Str(cat \o sp \o dog \o sp \o dog)
    /\ reply[1].payload.replacements = 1
    /\ reply[2].statusCode = 400

\* The depth and the count after the first k assignments of a trace that
\* started at depth 0 with count replacements made.
DepthAfter(trace, k) ==
    Cardinality({i \in 1..k : trace[i] = "depth++"})
        - Cardinality({i \in 1..k : trace[i] = "depth--"})

CountAfter(trace, count, k) ==
    count + Cardinality({i \in 1..k : trace[i] = "count++"})

(***************************************************************************)
(* C21: the depth is restored on every exit from a container: every        *)
(* depth++ of the traversal is followed, whether the subtree ends normally *)
(* or by a throw from a descendant or a later sibling, by the depth-- that *)
(* puts depth back to its value on entry, with depth above that value in   *)
(* between; so depth is 0 when replaceDogsWithCats returns or throws.      *)
(***************************************************************************)
C21_DepthRestored ==
    pc \in {"returned", "thrown"} =>
        /\ ret.context.depth = 0
        /\ DepthAfter(ret.context.trace, Len(ret.context.trace)) = 0
        /\ \A i \in 1..Len(ret.context.trace) :
            ret.context.trace[i] = "depth++" =>
                \E j \in (i + 1)..Len(ret.context.trace) :
                    /\ ret.context.trace[j] = "depth--"
                    /\ DepthAfter(ret.context.trace, j)
                            = DepthAfter(ret.context.trace, i - 1)
                    /\ \A k \in i..(j - 1) :
                            DepthAfter(ret.context.trace, k)
                                > DepthAfter(ret.context.trace, i - 1)

\* ["dog", [[]]] with maxDepth 1: the first element was replaced, the
\* innermost array of its later sibling threw two levels down, and the
\* depth is back at 0.
C21_Witness ==
    /\ pc = "thrown"
    /\ call.maxDepth = 1
    /\ call.input = Arr(<<Leaf, Arr(<<Arr(<<>>)>>)>>)
    /\ ret.context.trace = <<"depth++", "count++", "depth++", "depth--", "depth--">>
    /\ ret.context.depth = 0

(***************************************************************************)
(* C22: for every input within the depth limit the call returns and        *)
(* replacements = min(limit, N), N being the number of word-boundary       *)
(* matches of "dog" in the string values that are not under a dangerous    *)
(* key; every match counts once, several matches of one string included.   *)
(***************************************************************************)
C22_ReplacementCount ==
    /\ (pc \in {"returned", "thrown"} /\ DeepestKept(call.input) <= call.maxDepth)
            => pc = "returned"
    /\ pc = "returned" =>
            ret.replacements = Min(call.maxReplacements, MatchCount(call.input))

\* ["dog", "dog dog"] with limit 3: one match in the first string and two
\* in the second make 3 replacements.
C22_Witness ==
    /\ pc = "returned"
    /\ call.input = Arr(<<Leaf, Str(dog \o sp \o dog)>>)
    /\ call.maxReplacements = 3
    /\ MatchCount(call.input) = 3
    /\ ret.replacements = 3

RECURSIVE Containers(_)
RECURSIVE ContainersAll(_, _)
ContainersAll(values, i) ==
    IF i > Len(values) THEN 0
    ELSE Containers(values[i]) + ContainersAll(values, i + 1)

Containers(value) ==
    IF value.t = "array" THEN 1 + ContainersAll(value.v, 1)
    ELSE IF value.t = "object"
    THEN 1 + ContainersAll([i \in 1..Len(value.v) |-> value.v[i][2]], 1)
    ELSE 0

(***************************************************************************)
(* C24: the replacement cap never makes the transformer fail: a call on an *)
(* input nested within maxDepth, with any limit >= 0, ends by returning a  *)
(* result; a call that throws throws DepthLimitExceeded; and the call ends *)
(* after at most one entry and one exit per container and one count per    *)
(* replacement.                                                            *)
(***************************************************************************)
C24_OnlyDepthFails ==
    pc \in {"returned", "thrown"} =>
        /\ (DeepestKept(call.input) <= call.maxDepth =>
                pc = "returned" /\ ~ret.threw /\ ret.result # None)
        /\ (pc = "thrown" =>
                /\ ret.error = DepthLimitExceededError(call.maxDepth)
                /\ DeepestKept(call.input) > call.maxDepth)
        /\ Len(ret.context.trace)
                <= 2 * Containers(StripDangerous(call.input))
                    + Min(call.maxReplacements, MatchCount(call.input))

\* ["dog", "dog dog"] with limit 1: the cap was reached on the first
\* string and the call returned the rest unchanged.
C24_Witness ==
    /\ pc = "returned"
    /\ call.input = Arr(<<Leaf, Str(dog \o sp \o dog)>>)
    /\ call.maxReplacements = 1
    /\ ret.result = Arr(<<Str(cat), Str(dog \o sp \o dog)>>)
    /\ ret.limitReached

(***************************************************************************)
(* C25: after a SIGTERM or SIGINT the process eventually exits.  The flag  *)
(* is set before the server is closed; the exit code is 0 when app.close() *)
(* completed before the timeout, and 1 when the timeout fired first or the *)
(* close failed.                                                           *)
(***************************************************************************)
C25_ShutdownExits ==
    /\ [](process.closes > 0 => isShuttingDown)
    /\ [](pc = "exited" =>
            /\ process.exitCode \in {0, 1}
            /\ (process.exitCode = 0) =
                    (process.close = "resolved" /\ process.timer = "pending")
            /\ (process.exitCode = 1) =
                    (process.timer = "fired" \/ process.close = "rejected"))
    /\ (isShuttingDown ~> pc = "exited")

\* A connection that never ends keeps app.close() pending: the timeout
\* fired and the process left with code 1.
C25_Witness ==
    /\ pc = "exited"
    /\ process.signals = <<"SIGTERM">>
    /\ process.connections = 1
    /\ process.close = "pending"
    /\ process.timer = "fired"
    /\ process.exitCode = 1

(***************************************************************************)
(* C26: the shutdown flag is monotone and the shutdown runs at most once:  *)
(* isShuttingDown never goes back from true to false, and a signal         *)
(* received while a shutdown is in progress starts no second close and no  *)
(* second timeout.                                                         *)
(***************************************************************************)
C26_ShutdownOnce ==
    [][/\ isShuttingDown => isShuttingDown'
       /\ isShuttingDown =>
            /\ process'.closes = process.closes
            /\ process'.timers = process.timers
       /\ process'.closes <= 1
       /\ process'.timers <= 1]_vars

\* A SIGINT after the SIGTERM that started the shutdown: still one close
\* and one timeout.
C26_Witness ==
    /\ pc = "listening"
    /\ isShuttingDown
    /\ process.signals = <<"SIGTERM", "SIGINT">>
    /\ process.closes = 1
    /\ process.timers = 1

(***************************************************************************)
(* C27: the transformer is idempotent when the budget is not exhausted:    *)
(* for an input within the depth limit and a limit greater than its number *)
(* of matches, replaceDogsWithCats applied to the result returns the same  *)
(* value with replacements = 0.                                            *)
(***************************************************************************)
C27_Idempotent ==
    (pc = "returned" /\ call.maxReplacements > MatchCount(call.input)) =>
        LET again == replaceDogsWithCats(ret.result, call.maxReplacements,
                                         call.maxDepth, objectPrototype)
        IN  /\ ~again.threw
            /\ again.result = ret.result
            /\ again.replacements = 0
            /\ MatchCount(ret.result) = 0

\* {"dog": "dog dog"} with limit 3 became {"dog": "cat cat"}, which a
\* second call leaves as it is.
C27_Witness ==
    /\ pc = "returned"
    /\ call.input = Obj(<< <<"dog", Str(dog \o sp \o dog)>> >>)
    /\ call.maxReplacements = 3
    /\ ret.result = Obj(<< <<"dog", Str(cat \o sp \o cat)>> >>)
    /\ ret.replacements = 2

(***************************************************************************)
(* C28: the depth check is not applied inside a subtree that is dropped    *)
(* for its dangerous key: an input whose only nesting beyond maxDepth lies *)
(* under a __proto__, constructor or prototype key does not raise          *)
(* DepthLimitExceeded and is transformed as the input without those keys.  *)
(***************************************************************************)
C28_DroppedSubtreeDepth ==
    (/\ pc \in {"returned", "thrown"}
     /\ DeepestValue(call.input) > call.maxDepth
     /\ DeepestKept(call.input) <= call.maxDepth) =>
        /\ pc = "returned"
        /\ ~ret.threw
        /\ ret.result = FirstReplaced(call.input, call.maxReplacements)
        /\ ret.replacements
                = Min(call.maxReplacements, MatchCount(StripDangerous(call.input)))

\* {"__proto__": [["dog"]], "a": "dog"} with maxDepth 1: the string two
\* arrays down is never reached and the call returns {"a": "cat"}.
C28_Witness ==
    /\ pc = "returned"
    /\ call.maxDepth = 1
    /\ call.maxReplacements = 2
    /\ call.input = Obj(<< <<"__proto__", Arr(<<Arr(<<Leaf>>)>>)>>,
                           <<"a", Leaf>> >>)
    /\ ret.result = Obj(<< <<"a", Str(cat)>> >>)
    /\ ret.replacements = 1

(***************************************************************************)
(* C30: during a traversal, in every intermediate state and not only at    *)
(* the end, 0 <= depth <= maxDepth + 1 and count <= limit, and the count   *)
(* never decreases: the context is changed by count++, depth++ and depth-- *)
(* only, and its fields at the end are what these assignments add up to.   *)
(***************************************************************************)
C30_RunningBounds ==
    pc \in {"returned", "thrown"} =>
        /\ \A i \in 1..Len(ret.context.trace) :
                ret.context.trace[i] \in {"count++", "depth++", "depth--"}
        /\ ret.context.count
                = CountAfter(ret.context.trace, 0, Len(ret.context.trace))
        /\ ret.context.depth
                = DepthAfter(ret.context.trace, Len(ret.context.trace))
        /\ \A k \in 0..Len(ret.context.trace) :
                /\ DepthAfter(ret.context.trace, k) >= 0
                /\ DepthAfter(ret.context.trace, k) <= call.maxDepth + 1
                /\ CountAfter(ret.context.trace, 0, k) >= 0
                /\ CountAfter(ret.context.trace, 0, k) <= call.maxReplacements

\* ["dog", []] with limit 1 and maxDepth 1: the count reached the limit
\* and, inside the empty array, the depth reached maxDepth + 1.
C30_Witness ==
    /\ pc = "returned"
    /\ call.maxDepth = 1
    /\ call.maxReplacements = 1
    /\ call.input = Arr(<<Leaf, Arr(<<>>)>>)
    /\ ret.context.trace
            = <<"depth++", "count++", "depth++", "depth--", "depth--">>
    /\ DepthAfter(ret.context.trace, 3) = call.maxDepth + 1

(***************************************************************************)
(* C29: the metrics counters stay consistent: 0 <= errorCount <=           *)
(* requestCount always; neither counter ever decreases; every response     *)
(* adds exactly one to requestCount, and one to errorCount exactly when    *)
(* its status is >= 400; nothing else changes the counters.                *)
(***************************************************************************)
C29_MetricsConsistent ==
    /\ [](/\ 0 <= metrics.errorCount
          /\ metrics.errorCount <= metrics.requestCount)
    /\ [][/\ metrics'.requestCount >= metrics.requestCount
          /\ metrics'.errorCount >= metrics.errorCount
          /\ (pc = "reply" /\ pc' = "idle") =>
                /\ metrics'.requestCount = metrics.requestCount + 1
                /\ metrics'.errorCount =
                        IF reply.statusCode >= 400
                        THEN metrics.errorCount + 1
                        ELSE metrics.errorCount
          /\ ~(pc = "reply" /\ pc' = "idle") => metrics' = metrics]_vars

\* Three responses were counted, two of them with a status >= 400.
C29_Witness ==
    /\ pc = "idle"
    /\ metrics.requestCount = 3
    /\ metrics.errorCount = 2

====
